---------------------------- MODULE Spec2Model ----------------------------
(***************************************************************************)
(* A model of app.py: one run of process_file(path), with the calls it     *)
(* makes into extract_middle_frame, classify_image,                        *)
(* generate_caption_and_hashtags and bedrock_generate.  The libraries the  *)
(* script calls (cv2, PIL, the ViT model, the Bedrock client) are the      *)
(* environment: their results are chosen nondeterministically.             *)
(***************************************************************************)
EXTENDS Integers, Sequences, FiniteSets, TLC

(***************************************************************************)
(* Bounds of the model.                                                    *)
(***************************************************************************)
\* longest directory/base-name part put in front of a path's tail
MaxStem == 1
\* largest frame count a video reports or holds
MaxFrames == 4
\* largest number of text segments in a response's content list
MaxSegments == 2

(***************************************************************************)
(* Paths are sequences of one-character strings.                           *)
(***************************************************************************)
UpperChars == <<"J", "P", "G", "E", "N", "M", "O", "V", "K", "D", "F", "I", "A">>
LowerChars == <<"j", "p", "g", "e", "n", "m", "o", "v", "k", "d", "f", "i", "a">>

\* a lower() that leaves every character as it is
LowerCharIdentity(c) == c

\* str.lower() on one character: an upper-case letter becomes its lower-case
\* form, every other character is kept.
LowerChar(c) ==
    IF \E i \in 1..Len(UpperChars) : UpperChars[i] = c
    THEN LowerChars[CHOOSE i \in 1..Len(UpperChars) : UpperChars[i] = c]
    ELSE c

\* str.lower()
Lower(s) == [i \in 1..Len(s) |-> LowerChar(s[i])]

\* str.endswith(suffix) for one suffix
EndsWith(s, suffix) ==
    /\ Len(s) >= Len(suffix)
    /\ \A i \in 1..Len(suffix) : s[Len(s) - Len(suffix) + i] = suffix[i]

\* str.endswith(tuple): true when any suffix of the tuple matches
EndsWithAny(s, suffixes) == \E suffix \in suffixes : EndsWith(s, suffix)

\* the tuple of line 107 with one more extension in it
ImageExtsWithGif ==
    { <<".", "j", "p", "g">>, <<".", "j", "p", "e", "g">>, <<".", "p", "n", "g">>,
      <<".", "g", "i", "f">> }

\* the tuple of line 107
ImageExts ==
    { <<".", "j", "p", "g">>, <<".", "j", "p", "e", "g">>, <<".", "p", "n", "g">> }

\* the tuple of line 113 with its last extension left out
VideoExtsNoMkv ==
    { <<".", "m", "p", "4">>, <<".", "m", "o", "v">> }

\* the tuple of line 113
VideoExts ==
    { <<".", "m", "p", "4">>, <<".", "m", "o", "v">>, <<".", "m", "k", "v">> }

\* the branch process_file takes: the if / elif / else of lines 107-120
FileKind(path) ==
    IF EndsWithAny(Lower(path), ImageExts) THEN "image"
    ELSE IF EndsWithAny(Lower(path), VideoExts) THEN "video"
    ELSE "unsupported"

(***************************************************************************)
(* The paths the run is tried on: a stem, a tail in every mix of letter    *)
(* case, and possibly one trailing character.                              *)
(***************************************************************************)
UpperChar(c) ==
    IF \E i \in 1..Len(LowerChars) : LowerChars[i] = c
    THEN UpperChars[CHOOSE i \in 1..Len(LowerChars) : LowerChars[i] = c]
    ELSE c

CaseVariants(s) ==
    { [i \in 1..Len(s) |-> IF m[i] THEN UpperChar(s[i]) ELSE s[i]] :
        m \in [1..Len(s) -> BOOLEAN] }

Tails ==
    { <<".", "j", "p", "g">>, <<".", "j", "p", "e", "g">>, <<".", "p", "n", "g">>,
      <<".", "m", "p", "4">>, <<".", "m", "o", "v">>, <<".", "m", "k", "v">>,
      <<".", "p", "d", "f">>, <<".", "g", "i", "f">>, <<".", "a", "v", "i">>,
      <<"j", "p", "g">>, <<"m", "p", "4">>, <<".", "m", "p">>, <<>> }

StemChars == {"a", "."}

Stems == UNION { [1..n -> StemChars] : n \in 0..MaxStem }

Trails == { <<>>, <<"a">>, <<".">> }

Paths ==
    { stem \o tail \o trail :
        stem \in Stems,
        tail \in UNION { CaseVariants(t) : t \in Tails },
        trail \in Trails }

(***************************************************************************)
(* Values of the libraries.                                                *)
(***************************************************************************)
\* a decoded picture: the order of its channels and, for a video frame, the
\* position it was decoded from
NoFrame == [channels |-> <<>>, index |-> -1]

\* cv2 decodes every frame in BGR order
NativeVideoOrder == <<"B", "G", "R">>

\* the channel layouts PIL gives an opened file, by the file's pixel format
NativeImageOrders ==
    { <<"R", "G", "B">>, <<"R", "G", "B", "A">>, <<"L">>, <<"P">>,
      <<"C", "M", "Y", "K">> }

\* cv2.cvtColor(frame, cv2.COLOR_BGR2RGB): the first and third channel swap
CvtColorBGR2RGB(ch) == <<ch[3], ch[2], ch[1]>>

\* frame counts a container reports, and frame counts it really holds
FrameCounts == (0..MaxFrames) \cup {100}

\* the midpoint rounded up instead of down
MidRoundUp(total_frames) == (total_frames + 1) \div 2

\* line 62: total_frames // 2
Mid(total_frames) == total_frames \div 2

\* cap.read() at position pos of a video holding `actual` frames: it succeeds
\* when a frame is there and decodes
ReadSucceeds(actual, pos, decodes) == pos >= 0 /\ pos < actual /\ decodes

\* line 68: the condition under which extract_middle_frame raises
ExtractFails(ok) == ~ok

\* model.config.id2label
Id2Label == <<"seashore", "tabby">>

\* the f-strings of lines 80-94, as literal text around the theme
CaptionPrompt(theme) ==
    << "Generate 3 Instagram captions for: ", theme,
       "1. Aesthetic (under 12 words) 2. Funny (under 12 words) 3. Influencer style (under 12 words)" >>

HashtagsPrompt(theme) ==
    << "Generate 15 Instagram hashtags for ", theme,
       ". Rules: - lowercase - no spaces - comma separated" >>

\* what a call of bedrock.invoke_model can come back with: a transport
\* failure, a body that is not the expected JSON shape, or a body whose
\* output.message.content is a list of text segments
Texts == {"t1", "t2"}

Contents == UNION { [1..n -> Texts] : n \in 0..MaxSegments }

Responses ==
    { [kind |-> "transport_error", content |-> <<>>],
      [kind |-> "malformed", content |-> <<>>] }
    \cup { [kind |-> "body", content |-> c] : c \in Contents }

\* bedrock_generate taking the last text segment instead of the first
BedrockGenerateLastSegment(response) ==
    IF response.kind = "transport_error" THEN [err |-> "ClientError", text |-> ""]
    ELSE IF response.kind = "malformed" THEN [err |-> "KeyError", text |-> ""]
    ELSE IF Len(response.content) = 0 THEN [err |-> "IndexError", text |-> ""]
    ELSE [err |-> "none", text |-> response.content[Len(response.content)]]

\* bedrock_generate catching every failure and returning an empty text
BedrockGenerateSwallow(response) ==
    IF response.kind = "body" /\ Len(response.content) > 0
    THEN [err |-> "none", text |-> response.content[1]]
    ELSE [err |-> "none", text |-> ""]

\* lines 25-33: the text bedrock_generate returns, or the exception it lets
\* through
BedrockGenerate(response) ==
    IF response.kind = "transport_error" THEN [err |-> "ClientError", text |-> ""]
    ELSE IF response.kind = "malformed" THEN [err |-> "KeyError", text |-> ""]
    ELSE IF Len(response.content) = 0 THEN [err |-> "IndexError", text |-> ""]
    ELSE [err |-> "none", text |-> response.content[1]]

RemoteErrors == {"ClientError", "KeyError", "IndexError"}

ExtractError == "Could not extract frame!"

(***************************************************************************)
(* The state of one run.                                                   *)
(***************************************************************************)
VARIABLES
    pc,         \* the line the run is at
    path,       \* process_file's argument
    calls,      \* the calls made so far, in order
    out,        \* what has been printed so far, in order
    video,      \* the opened container: frames reported, frames held
    cap,        \* the cv2.VideoCapture: handle held, position, reads made
    total_frames, mid, success, frame,   \* locals of extract_middle_frame
    img, label,                          \* locals of process_file
    requests,   \* the prompts sent to the remote service, in order
    responses,  \* what the remote service answered, in order
    g_captions, g_hashtags,              \* locals of generate_caption_and_hashtags
    captions, hashtags,                  \* locals of process_file (line 124)
    err         \* the exception the run ended with, or "none"

vars == << pc, path, calls, out, video, cap, total_frames, mid, success, frame,
           img, label, requests, responses, g_captions, g_hashtags,
           captions, hashtags, err >>

extractVars == << video, cap, total_frames, mid, success, frame >>
genVars == << requests, responses, g_captions, g_hashtags, captions, hashtags >>

None == "None"

Init ==
    /\ pc = "dispatch"
    /\ path \in Paths
    /\ calls = <<>>
    /\ out = <<>>
    /\ video = [reported |-> 0, actual |-> 0]
    /\ cap = [held |-> FALSE, pos |-> 0, reads |-> 0]
    /\ total_frames = 0
    /\ mid = 0
    /\ success = FALSE
    /\ frame = NoFrame
    /\ img = NoFrame
    /\ label = None
    /\ requests = <<>>
    /\ responses = <<>>
    /\ g_captions = None
    /\ g_hashtags = None
    /\ captions = None
    /\ hashtags = None
    /\ err = "none"

(***************************************************************************)
(* process_file, lines 105-120: the branch on the path's suffix.           *)
(***************************************************************************)
Dispatch ==
    /\ pc = "dispatch"
    /\ CASE FileKind(path) = "image" ->
              /\ out' = Append(out, <<"Processing IMAGE...">>)
              /\ pc' = "image_open"
         [] FileKind(path) = "video" ->
              /\ out' = Append(out, <<"Processing VIDEO...">>)
              /\ pc' = "cap_open"
         [] OTHER ->
              /\ out' = Append(out, <<"Unsupported file!">>)
              /\ pc' = "returned"
    /\ UNCHANGED << path, calls, extractVars, img, label, genVars, err >>

\* line 109: img = Image.open(path).  PIL either fails to open the file or
\* gives the picture in the file's own pixel format.
ImageOpen ==
    /\ pc = "image_open"
    /\ calls' = Append(calls, "Image.open")
    /\ \E opened \in BOOLEAN :
         IF opened
         THEN /\ \E order \in NativeImageOrders :
                    img' = [channels |-> order, index |-> 0]
              /\ pc' = "classify"
              /\ err' = err
         ELSE /\ img' = img
              /\ pc' = "raised"
              /\ err' = "OSError"
    /\ UNCHANGED << path, out, extractVars, label, genVars >>

(***************************************************************************)
(* extract_middle_frame, lines 58-73, called at line 115.                  *)
(***************************************************************************)
\* line 59: cap = cv2.VideoCapture(video_path)
CapOpen ==
    /\ pc = "cap_open"
    /\ calls' = Append(calls, "extract_middle_frame")
    /\ \E reported \in FrameCounts, actual \in FrameCounts :
         video' = [reported |-> reported, actual |-> actual]
    /\ cap' = [held |-> TRUE, pos |-> 0, reads |-> 0]
    /\ pc' = "cap_count"
    /\ UNCHANGED << path, out, total_frames, mid, success, frame, img, label,
                    genVars, err >>

\* lines 61-62
CapCount ==
    /\ pc = "cap_count"
    /\ total_frames' = video.reported
    /\ mid' = Mid(video.reported)
    /\ pc' = "cap_set"
    /\ UNCHANGED << path, calls, out, video, cap, success, frame, img, label,
                    genVars, err >>

\* line 64: cap.set(cv2.CAP_PROP_POS_FRAMES, mid)
CapSet ==
    /\ pc = "cap_set"
    /\ cap' = [cap EXCEPT !.pos = mid]
    /\ pc' = "cap_read"
    /\ UNCHANGED << path, calls, out, video, total_frames, mid, success, frame,
                    img, label, genVars, err >>

\* line 65 with a second attempt at position 0 after a failed read
CapReadWithFallback ==
    /\ pc = "cap_read"
    /\ \E decodes \in BOOLEAN :
         LET first == ReadSucceeds(video.actual, cap.pos, decodes)
             again == ReadSucceeds(video.actual, 0, TRUE)
         IN  /\ success' = (first \/ again)
             /\ frame' = IF first
                         THEN [channels |-> NativeVideoOrder, index |-> cap.pos]
                         ELSE IF again
                         THEN [channels |-> NativeVideoOrder, index |-> 0]
                         ELSE NoFrame
             /\ cap' = [cap EXCEPT !.reads = IF first THEN @ + 1 ELSE @ + 2,
                                   !.pos = IF first THEN @ ELSE 0]
    /\ pc' = "cap_release"
    /\ UNCHANGED << path, calls, out, video, total_frames, mid, img, label,
                    genVars, err >>

\* line 65: success, frame = cap.read()
CapRead ==
    /\ pc = "cap_read"
    /\ \E decodes \in BOOLEAN :
         /\ success' = ReadSucceeds(video.actual, cap.pos, decodes)
         /\ frame' = IF success'
                     THEN [channels |-> NativeVideoOrder, index |-> cap.pos]
                     ELSE NoFrame
    /\ cap' = [cap EXCEPT !.reads = @ + 1]
    /\ pc' = "cap_release"
    /\ UNCHANGED << path, calls, out, video, total_frames, mid, img, label,
                    genVars, err >>

\* cap.release() moved after the check of line 68: made only when the read
\* succeeded
CapReleaseOnSuccessOnly ==
    /\ pc = "cap_release"
    /\ cap' = [cap EXCEPT !.held = IF success THEN FALSE ELSE @]
    /\ pc' = "check"
    /\ UNCHANGED << path, calls, out, video, total_frames, mid, success, frame,
                    img, label, genVars, err >>

\* line 66: cap.release()
CapRelease ==
    /\ pc = "cap_release"
    /\ cap' = [cap EXCEPT !.held = FALSE]
    /\ pc' = "check"
    /\ UNCHANGED << path, calls, out, video, total_frames, mid, success, frame,
                    img, label, genVars, err >>

\* lines 68-69 with the exception caught by the caller, which goes on without
\* a frame
ExtractRaiseCaught ==
    /\ pc = "check"
    /\ ExtractFails(success)
    /\ pc' = "classify"
    /\ UNCHANGED << path, calls, out, extractVars, img, label, genVars, err >>

\* lines 68-69: raise Exception("Could not extract frame!").  Nothing in
\* process_file or at line 135 catches it, so the run ends.
ExtractRaise ==
    /\ pc = "check"
    /\ ExtractFails(success)
    /\ err' = ExtractError
    /\ pc' = "raised"
    /\ UNCHANGED << path, calls, out, extractVars, img, label, genVars >>

\* lines 72-73 and the assignment of line 115: the frame converted to RGB is
\* returned, and the locals of the call are gone
ExtractReturn ==
    /\ pc = "check"
    /\ ~ExtractFails(success)
    /\ img' = [frame EXCEPT !.channels = CvtColorBGR2RGB(@)]
    /\ video' = [reported |-> 0, actual |-> 0]
    /\ total_frames' = 0
    /\ mid' = 0
    /\ success' = FALSE
    /\ frame' = NoFrame
    /\ pc' = "classify"
    /\ UNCHANGED << path, calls, out, cap, label, genVars, err >>

(***************************************************************************)
(* classify_image, lines 48-52, called at lines 110 and 116.               *)
(***************************************************************************)
Classify ==
    /\ pc = "classify"
    /\ calls' = Append(calls, "classify_image")
    /\ \E pred \in 1..Len(Id2Label) : label' = Id2Label[pred]
    /\ pc' = "print_theme"
    /\ UNCHANGED << path, out, extractVars, img, genVars, err >>

\* line 122
PrintTheme ==
    /\ pc = "print_theme"
    /\ out' = Append(out, <<"Detected Theme:", label>>)
    /\ pc' = "gen_captions"
    /\ UNCHANGED << path, calls, extractVars, img, label, genVars, err >>

(***************************************************************************)
(* generate_caption_and_hashtags, lines 79-99, called at line 124, and the *)
(* two calls of bedrock_generate it makes.                                 *)
(***************************************************************************)
\* line 96: captions = bedrock_generate(caption_prompt)
GenCaptions ==
    /\ pc = "gen_captions"
    /\ calls' = Append(calls, "bedrock_generate")
    /\ requests' = Append(requests, CaptionPrompt(label))
    /\ \E response \in Responses :
         LET r == BedrockGenerate(response)
         IN  /\ responses' = Append(responses, response)
             /\ IF r.err = "none"
                THEN /\ g_captions' = r.text
                     /\ pc' = "gen_hashtags"
                     /\ err' = err
                ELSE /\ g_captions' = g_captions
                     /\ pc' = "raised"
                     /\ err' = r.err
    /\ UNCHANGED << path, out, extractVars, img, label, g_hashtags, captions,
                    hashtags >>

\* line 97: hashtags = bedrock_generate(hashtags_prompt)
GenHashtags ==
    /\ pc = "gen_hashtags"
    /\ calls' = Append(calls, "bedrock_generate")
    /\ requests' = Append(requests, HashtagsPrompt(label))
    /\ \E response \in Responses :
         LET r == BedrockGenerate(response)
         IN  /\ responses' = Append(responses, response)
             /\ IF r.err = "none"
                THEN /\ g_hashtags' = r.text
                     /\ pc' = "gen_return"
                     /\ err' = err
                ELSE /\ g_hashtags' = g_hashtags
                     /\ pc' = "raised"
                     /\ err' = r.err
    /\ UNCHANGED << path, out, extractVars, img, label, g_captions, captions,
                    hashtags >>

\* line 99 and the assignment of line 124
GenReturn ==
    /\ pc = "gen_return"
    /\ captions' = g_captions
    /\ hashtags' = g_hashtags
    /\ pc' = "print_captions"
    /\ UNCHANGED << path, calls, out, extractVars, img, label, requests,
                    responses, g_captions, g_hashtags, err >>

\* line 126
PrintCaptions ==
    /\ pc = "print_captions"
    /\ out' = Append(out, <<"CAPTIONS:", captions>>)
    /\ pc' = "print_hashtags"
    /\ UNCHANGED << path, calls, extractVars, img, label, genVars, err >>

\* line 127, after which process_file returns
PrintHashtags ==
    /\ pc = "print_hashtags"
    /\ out' = Append(out, <<"HASHTAGS:", hashtags>>)
    /\ pc' = "returned"
    /\ UNCHANGED << path, calls, extractVars, img, label, genVars, err >>

Next ==
    \/ Dispatch
    \/ ImageOpen
    \/ CapOpen
    \/ CapCount
    \/ CapSet
    \/ CapRead
    \/ CapRelease
    \/ ExtractRaise
    \/ ExtractReturn
    \/ Classify
    \/ PrintTheme
    \/ GenCaptions
    \/ GenHashtags
    \/ GenReturn
    \/ PrintCaptions
    \/ PrintHashtags

Spec == Init /\ [][Next]_vars

(***************************************************************************)
(* Vocabulary of the properties.  The kind of a path is stated here        *)
(* letter by letter, without lower-casing the path.                        *)
(***************************************************************************)
SameLetter(a, b) ==
    \/ a = b
    \/ \E i \in 1..Len(UpperChars) : {a, b} = {UpperChars[i], LowerChars[i]}

HasSuffixAnyCase(p, ext) ==
    /\ Len(p) >= Len(ext)
    /\ \A i \in 1..Len(ext) : SameLetter(p[Len(p) - Len(ext) + i], ext[i])

RecognizedImageExts ==
    { <<".", "j", "p", "g">>, <<".", "j", "p", "e", "g">>, <<".", "p", "n", "g">> }

RecognizedVideoExts ==
    { <<".", "m", "p", "4">>, <<".", "m", "o", "v">>, <<".", "m", "k", "v">> }

IsImagePath == \E ext \in RecognizedImageExts : HasSuffixAnyCase(path, ext)
IsVideoPath == \E ext \in RecognizedVideoExts : HasSuffixAnyCase(path, ext)
IsUnsupportedPath == ~IsImagePath /\ ~IsVideoPath

HasUpperCase == \E i \in 1..Len(path), k \in 1..Len(UpperChars) : path[i] = UpperChars[k]

Called(name) == \E i \in 1..Len(calls) : calls[i] = name
CountCalls(name) == Cardinality({ i \in 1..Len(calls) : calls[i] = name })
Printed(tag) == \E i \in 1..Len(out) : out[i][1] = tag

InExtract == pc \in {"cap_count", "cap_set", "cap_read", "cap_release", "check"}
ReadDone == pc \in {"cap_release", "check"} \/ (pc = "raised" /\ err = ExtractError)
GenerateReturned ==
    \/ pc \in {"gen_return", "print_captions", "print_hashtags"}
    \/ pc = "returned" /\ ~IsUnsupportedPath
FailedResponse(r) == r.kind # "body" \/ r.content = <<>>
RGB == <<"R", "G", "B">>

(***************************************************************************)
(* C1: for a path whose lower-cased form ends in none of the six           *)
(* recognized extensions, process_file loads no image, extracts no frame,  *)
(* calls neither classify_image nor the remote service, and returns        *)
(* normally.                                                               *)
(***************************************************************************)
C1_UnsupportedIsNoOp ==
    (IsUnsupportedPath /\ pc # "dispatch") =>
        /\ pc = "returned"
        /\ err = "none"
        /\ calls = <<>>
        /\ requests = <<>>
        /\ ~cap.held
        /\ img = NoFrame
        /\ out = << <<"Unsupported file!">> >>

C1_Witness ==
    /\ IsUnsupportedPath
    /\ pc = "returned"
    /\ Len(path) >= 4
    /\ HasSuffixAnyCase(path, <<"j", "p", "g">>)

(***************************************************************************)
(* C2: for a path ending in .jpg, .jpeg or .png in any letter case,        *)
(* process_file goes to the direct image load and never calls              *)
(* extract_middle_frame.                                                   *)
(***************************************************************************)
C2_ImageNeverExtracts ==
    IsImagePath =>
        /\ ~Called("extract_middle_frame")
        /\ ~cap.held /\ cap.reads = 0
        /\ pc # "dispatch" =>
             \/ pc = "image_open"
             \/ Len(calls) >= 1 /\ calls[1] = "Image.open"

C2_Witness ==
    /\ IsImagePath
    /\ HasUpperCase
    /\ pc = "returned"
    /\ Called("Image.open")
    /\ Called("classify_image")

(***************************************************************************)
(* C3: for a path ending in .mp4, .mov or .mkv in any letter case,         *)
(* process_file calls extract_middle_frame, that call comes before the     *)
(* call of classify_image, and classify_image is called only after the     *)
(* extraction has given a frame.                                           *)
(***************************************************************************)
C3_VideoExtractsBeforeClassify ==
    IsVideoPath =>
        /\ ~Called("Image.open")
        /\ pc \notin {"dispatch", "cap_open"} =>
             Len(calls) >= 1 /\ calls[1] = "extract_middle_frame"
        /\ \A j \in 1..Len(calls) :
             calls[j] = "classify_image" =>
                /\ \E i \in 1..(j - 1) : calls[i] = "extract_middle_frame"
                /\ img # NoFrame
                /\ img.index = cap.pos
                /\ err # ExtractError

C3_Witness ==
    /\ IsVideoPath
    /\ HasUpperCase
    /\ HasSuffixAnyCase(path, <<".", "m", "k", "v">>)
    /\ calls = <<"extract_middle_frame", "classify_image">>

(***************************************************************************)
(* C4: for a video reporting N >= 1 frames, extract_middle_frame seeks to  *)
(* floor(N/2) (0 for N = 1, 50 for N = 100), an index within 0..N-1, and   *)
(* decodes exactly one frame, at that position.                            *)
(***************************************************************************)
C4_SeeksToMiddle ==
    (ReadDone /\ video.reported >= 1) =>
        /\ 2 * cap.pos <= video.reported
        /\ video.reported < 2 * cap.pos + 2
        /\ cap.pos \in 0..(video.reported - 1)
        /\ video.reported = 1 => cap.pos = 0
        /\ video.reported = 100 => cap.pos = 50
        /\ cap.reads = 1
        /\ success => frame.index = cap.pos

C4_Witness ==
    /\ pc = "check"
    /\ video.reported = 100
    /\ cap.pos = 50
    /\ cap.reads = 1
    /\ success
    /\ frame.index = 50

(***************************************************************************)
(* C5: when the video holds no frame, or the decode at the target index    *)
(* fails, extract_middle_frame raises its extraction error: no frame is    *)
(* returned, one decode attempt was made and no frame of another position  *)
(* is used instead.                                                        *)
(***************************************************************************)
C5_FailedDecode ==
    /\ (ReadDone /\ video.actual = 0) => ~success
    /\ (ReadDone /\ ~success) =>
         /\ frame = NoFrame
         /\ img = NoFrame
         /\ cap.reads = 1
         /\ cap.pos = mid
    /\ (IsVideoPath /\ ~InExtract /\ pc \notin {"dispatch", "cap_open"}) =>
         \/ /\ pc = "raised"
            /\ err = ExtractError
            /\ img = NoFrame
            /\ ~success
            /\ cap.reads = 1
         \/ /\ err # ExtractError
            /\ img # NoFrame
            /\ img.index = cap.pos
            /\ cap.reads = 1

C5_ExtractionFails ==
    /\ []C5_FailedDecode
    /\ [][(pc = "check" /\ ~success) =>
            (pc' = "raised" /\ err' = ExtractError /\ img' = NoFrame
               /\ cap' = cap)]_vars

C5_Witness ==
    /\ pc = "raised"
    /\ err = ExtractError
    /\ video.actual = 0
    /\ video.reported = 0
    /\ cap.reads = 1
    /\ img = NoFrame

(***************************************************************************)
(* C6: the video handle extract_middle_frame acquires is released before   *)
(* the call ends, whether it returns or raises.                            *)
(***************************************************************************)
C6_HandleReleased ==
    cap.held => pc \in {"cap_count", "cap_set", "cap_read", "cap_release"}

C6_Witness ==
    /\ pc = "raised"
    /\ err = ExtractError
    /\ video.actual > 0
    /\ cap.reads = 1
    /\ ~cap.held

(***************************************************************************)
(* C7: a call of generate_caption_and_hashtags that returns has sent two   *)
(* requests, with two different prompts, and returns two strings: the      *)
(* first text segment of the captions response and the first text segment  *)
(* of the hashtags response, unchanged.                                    *)
(***************************************************************************)
C7_TwoRequestsTwoTexts ==
    GenerateReturned =>
        /\ Len(requests) = 2
        /\ CountCalls("bedrock_generate") = 2
        /\ requests[1] # requests[2]
        /\ requests[1][2] = label /\ requests[2][2] = label
        /\ Len(responses) = 2
        /\ g_captions = responses[1].content[1]
        /\ g_hashtags = responses[2].content[1]
        /\ pc # "gen_return" =>
             /\ captions = responses[1].content[1]
             /\ hashtags = responses[2].content[1]

C7_Witness ==
    /\ pc = "returned"
    /\ Len(responses) = 2
    /\ Len(responses[1].content) = 2
    /\ responses[1].content[1] # responses[1].content[2]
    /\ captions # hashtags
    /\ Printed("CAPTIONS:") /\ Printed("HASHTAGS:")

(***************************************************************************)
(* C8: a failed remote request ends the run with its exception: it is not  *)
(* sent again, after a failed captions request no hashtags request is      *)
(* sent, and no captions or hashtags are returned or printed.              *)
(***************************************************************************)
C8_RemoteFailurePropagates ==
    \A i \in 1..Len(responses) :
        FailedResponse(responses[i]) =>
            /\ pc = "raised"
            /\ err \in RemoteErrors
            /\ Len(requests) = i
            /\ Len(responses) = i
            /\ CountCalls("bedrock_generate") = i
            /\ captions = None /\ hashtags = None
            /\ ~Printed("CAPTIONS:") /\ ~Printed("HASHTAGS:")

C8_Witness ==
    /\ pc = "raised"
    /\ Len(responses) = 2
    /\ FailedResponse(responses[2])
    /\ g_captions \in Texts
    /\ captions = None

(***************************************************************************)
(* C9: every frame handed to classify_image has RGB channel order, on the  *)
(* video branch and on the image branch alike.                             *)
(***************************************************************************)
C9_ClassifiedFrameIsRGB ==
    Called("classify_image") => img.channels = RGB

\* the video branch alone: the frame cv2 decoded in BGR order is classified
\* in RGB order
C9_VideoFrameIsRGB ==
    (IsVideoPath /\ Called("classify_image")) => img.channels = RGB

(***************************************************************************)
(* C10: when extract_middle_frame fails on a video path the run ends       *)
(* there: classify_image is not called, no remote request is sent, and     *)
(* neither theme nor captions nor hashtags are printed.                    *)
(***************************************************************************)
C10_ExtractFailureEndsRun ==
    (IsVideoPath /\ ~InExtract /\ pc \notin {"dispatch", "cap_open"}
       /\ img = NoFrame) =>
        /\ pc = "raised"
        /\ err = ExtractError
        /\ ~Called("classify_image")
        /\ ~Called("bedrock_generate")
        /\ requests = <<>>
        /\ label = None
        /\ ~Printed("Detected Theme:")
        /\ ~Printed("CAPTIONS:") /\ ~Printed("HASHTAGS:")

C10_Witness ==
    /\ pc = "raised"
    /\ err = ExtractError
    /\ video.reported = 100
    /\ video.actual = 4
    /\ calls = <<"extract_middle_frame">>
    /\ out = << <<"Processing VIDEO...">> >>

=============================================================================
